---- MODULE Spec2Model ----
(***************************************************************************)
(* aws-simple-sso (src/index.js, lines 1-401): the authenticate sequence   *)
(* getOrgUrl -> getToken -> getAccount -> getRole -> getRoleCredentials,   *)
(* the localStorage cache of organizations and tokens, and the device-     *)
(* authorization polling loop.                                             *)
(*                                                                         *)
(* Strings that the code inspects character by character (names, cache     *)
(* keys) are sequences of one-character strings.  A string held in         *)
(* localStorage is either unparseable (Corrupt) or the JSON text of a      *)
(* value, [json |-> v]; a Date is a number of milliseconds and its JSON    *)
(* form is the ISO string [iso |-> ms].                                    *)
(***************************************************************************)
EXTENDS Integers, Sequences, FiniteSets, TLC

VARIABLES
  localStorage,  \* the node-localstorage store: key -> string or NoItem
  now,           \* the wall clock (Date.now()), in milliseconds
  sso,           \* the module-level SSO client (its region), None before
  flow,          \* the locals of each running authenticate call
  hist,          \* what each call has done so far (calls, prompts, writes)
  calls,         \* how many times authenticate has been called
  issued         \* key -> what was last stored under it, as the program
                 \* held it: the token of createToken, the list of orgs

vars == <<localStorage, now, sso, flow, hist, calls, issued>>

-----------------------------------------------------------------------------
(* Bounds of the model *)

MaxTicks == 1      \* clock ticks the wall clock may advance
MaxPages == 2      \* pages a listing may be split into
MaxCalls == 2      \* authenticate calls in one run

(* Program constants *)

MaxIterations == 120   \* let maxIterations = 120
DelayMs == 1000        \* await delay(1000)
MsPerSecond == 1000    \* token.expiresIn * 1000

TickMs == MsPerSecond  \* the modelled clock advances in whole seconds
MaxNow == MaxTicks * TickMs

-----------------------------------------------------------------------------
(* Values *)

None == "none"            \* a local that holds nothing yet
Null == "null"            \* JavaScript null
Undefined == "undefined"  \* JavaScript undefined (also: a cancelled prompt)

(* A stored string: absent (getItem gives null), a string JSON.parse       *)
(* rejects, or the JSON text of a value.                                   *)
NoItem == [kind |-> "none"]
Corrupt == [kind |-> "corrupt"]
JsonText(v) == [kind |-> "json", json |-> v]

Flows == {"f1", "f2"}   \* authenticate calls that may be in progress
MainFlows == {"f1"}     \* the calls of a sequential caller

NameA == <<"a">>
NameAD == <<"a", "d">>
Names == {NameA, NameAD}

(* 'Add a new startUrl' *)
SentinelName ==
  <<"A","d","d"," ","a"," ","n","e","w"," ","s","t","a","r","t","U","r","l">>

Sentinel == [name |-> SentinelName, startUrl |-> Null, region |-> Undefined]

(* What the user may type at the three text prompts of getOrgUrl. *)
NewOrgInputs ==
  { [name |-> NameA,  startUrl |-> "u1", region |-> "r1"],
    [name |-> NameAD, startUrl |-> "u2", region |-> "r2"],
    [name |-> NameA,  startUrl |-> "u2", region |-> "r2"] }

(* localStorage keys: 'startUrls' and `sso-${orgUrl.name}` *)
StartUrlsKey == <<"s","t","a","r","t","U","r","l","s">>
SsoPrefix == <<"s","s","o","-">>
CacheKey(name) == SsoPrefix \o name
Keys == {StartUrlsKey} \cup {CacheKey(n) : n \in Names}

-----------------------------------------------------------------------------
(* JSON and Date *)

Truthy(s) == s.kind # "none"      \* if (cached) ...
IsJson(s) == s.kind = "json"      \* JSON.parse(s) does not throw

(* JSON.stringify of a Date is its ISO string; new Date(iso) reads it back *)
DateToJSON(ms) == [iso |-> ms]
NewDate(x) == x.iso

(* JSON.stringify of an entry leaves out a property that is undefined (of  *)
(* the entries built here only region can be); JSON.parse gives an object  *)
(* on which a property left out reads as undefined.                        *)
JsonOfOrg(o) ==
  IF o.region = Undefined
    THEN [name |-> o.name, startUrl |-> o.startUrl]
    ELSE [name |-> o.name, startUrl |-> o.startUrl, region |-> o.region]
OrgOfJson(j) ==
  [name |-> j.name, startUrl |-> j.startUrl,
   region |-> IF "region" \in DOMAIN j THEN j.region ELSE Undefined]

(* JSON.stringify / JSON.parse of the organization list *)
StringifyOrgs(list) == JsonText([i \in 1..Len(list) |-> JsonOfOrg(list[i])])
ParseOrgs(s) == [i \in 1..Len(s.json) |-> OrgOfJson(s.json[i])]

(* JSON.stringify({token, expireTime}) with the Date stored as an invalid  *)
(* date, which is read back as the epoch                                   *)
StringifyTokenEpoch(token, expireTime) ==
  JsonText([token |-> token, expireTime |-> DateToJSON(0)])

(* JSON.stringify({token, expireTime}) / JSON.parse of a token entry *)
StringifyToken(token, expireTime) ==
  JsonText([token |-> token, expireTime |-> DateToJSON(expireTime)])
ParseToken(s) == s.json

-----------------------------------------------------------------------------
(* createMatcher *)

Contains(s, p) ==
  \E i \in 0..(Len(s) - Len(p)) : SubSeq(s, i + 1, i + Len(p)) = p

(* The match parameter: absent, a function (as in test.js: name === x), a  *)
(* string, or a RegExp (a literal pattern, tested anywhere in the name).   *)
Matchers ==
  { [kind |-> "none", arg |-> <<>>],
    [kind |-> "fn",   arg |-> NameAD],
    [kind |-> "str",  arg |-> NameA],
    [kind |-> "re",   arg |-> NameA],
    [kind |-> "re",   arg |-> NameAD] }

createMatcher(match, a) ==
  CASE match.kind = "none" -> TRUE
    [] match.kind = "fn"   -> a.name = match.arg
    [] match.kind = "re"   -> Contains(a.name, match.arg)
    [] match.kind = "str"  -> a.name = match.arg

Filter(list, match) ==
  LET keep(a) == createMatcher(match, a) IN SelectSeq(list, keep)

-----------------------------------------------------------------------------
(* Flow locals *)

(* A local holds a one-element sequence once it is assigned, <<>> before. *)
IdleFlow ==
  [ pc |-> "idle",
    matchOrg |-> <<>>, startUrls |-> <<>>, matchedStartUrls |-> <<>>,
    orgUrl |-> <<>>,
    cacheKey |-> <<>>, maxIterations |-> 0, token |-> <<>>,
    match |-> <<>>, list |-> <<>>, nextToken |-> <<>>, matched |-> <<>>,
    account |-> <<>>, role |-> <<>>,
    credentials |-> <<>>, error |-> <<>> ]

NoHist ==
  [ stages |-> <<>>, prompts |-> 0,
    regCalls |-> 0, devCalls |-> 0, displays |-> 0,
    createCalls |-> 0, delays |-> 0, listCalls |-> 0, credCalls |-> 0,
    sent |-> <<>>, response |-> <<>>, writes |-> <<>>, fromCache |-> FALSE,
    caught |-> <<>>, redeemed |-> FALSE, client |-> None ]

SetFlow(f, r) == flow' = [flow EXCEPT ![f] = r]
SetHist(f, h) == hist' = [hist EXCEPT ![f] = h]

(* A throw leaves every function on the stack: only the error is left. *)
Fail(f, msg) ==
  SetFlow(f, [IdleFlow EXCEPT !.pc = "failed", !.error = msg])

-----------------------------------------------------------------------------
Init ==
  /\ localStorage \in {[k \in Keys |-> NoItem], [k \in Keys |-> Corrupt]}
  /\ now = 0
  /\ sso = None
  /\ flow = [f \in Flows |-> IdleFlow]
  /\ hist = [f \in Flows |-> NoHist]
  /\ calls = 0
  /\ issued = [k \in Keys |-> <<>>]

-----------------------------------------------------------------------------
(* authenticate: const startUrl = await getOrgUrl(params.matchOrg) ...     *)
(* Each params.match* is drawn where authenticate reads it.                *)

(* hist counts within one stage: entering a stage starts the counts anew. *)
Stage(f, name) == [NoHist EXCEPT !.stages = Append(hist[f].stages, name)]

authenticate(f) ==
  /\ flow[f].pc = "idle"
  /\ calls < MaxCalls
  /\ calls' = calls + 1
  /\ SetFlow(f, [IdleFlow EXCEPT !.pc = "getOrgUrl"])
  /\ SetHist(f, NoHist)
  /\ UNCHANGED <<localStorage, now, sso, issued>>

(* The call has returned or thrown; the caller may call again. *)
Return(f) ==
  /\ flow[f].pc \in {"done", "failed"}
  /\ SetFlow(f, IdleFlow)
  /\ SetHist(f, NoHist)
  /\ UNCHANGED <<localStorage, now, sso, calls, issued>>

-----------------------------------------------------------------------------
(* getOrgUrl *)

(* lines 138-149: the cached list, [] when absent or unparseable *)
LoadStartUrls(cached) ==
  IF IsJson(cached) THEN ParseOrgs(cached) ELSE <<>>

(* lines 151-154 without the test for an entry with startUrl null *)
AddSentinelAlways(list) == <<Sentinel>> \o list

(* lines 151-154: unshift the sentinel unless an entry has startUrl null *)
AddSentinel(list) ==
  IF \E i \in 1..Len(list) : list[i].startUrl = Null
    THEN list
    ELSE <<Sentinel>> \o list

(* line 157 *)
MatchedStartUrls(list, matchOrg) == Filter(list, matchOrg)

(* line 160 without the test for the sentinel *)
ReturnsDirectlyAnyEntry(matched) == Len(matched) = 1

(* line 160 *)
ReturnsDirectly(matched) ==
  Len(matched) = 1 /\ matched[1].startUrl # Null

getOrgUrl(f) ==
  /\ flow[f].pc = "getOrgUrl"
  /\ \E matchOrg \in Matchers :
       LET startUrls == AddSentinel(LoadStartUrls(localStorage[StartUrlsKey]))
           matched   == MatchedStartUrls(startUrls, matchOrg)
           loaded    == [flow[f] EXCEPT !.matchOrg = <<matchOrg>>,
                                        !.startUrls = startUrls,
                                        !.matchedStartUrls = matched]
       IN IF ReturnsDirectly(matched)
            THEN /\ SetFlow(f, [loaded EXCEPT !.pc = "getToken",
                                              !.orgUrl = <<matched[1]>>])
                 /\ SetHist(f, Stage(f, "getOrgUrl"))
            ELSE /\ SetFlow(f, [loaded EXCEPT !.pc = "org_select"])
                 /\ SetHist(f, [Stage(f, "getOrgUrl") EXCEPT !.prompts = @ + 1])
  /\ UNCHANGED <<localStorage, now, sso, calls, issued>>

(* lines 164-172, 204: the chooser answers.  A cancelled prompt, or one    *)
(* with nothing to choose, leaves response.value undefined and line 172    *)
(* throws a TypeError.                                                     *)
OrgSelectCancel(f) ==
  /\ flow[f].pc = "org_select"
  /\ Fail(f, <<"TypeError">>)
  /\ UNCHANGED <<localStorage, now, sso, hist, calls, issued>>

OrgSelect(f) ==
  /\ flow[f].pc = "org_select"
  /\ \E i \in 1..Len(flow[f].matchedStartUrls) :
       LET value == flow[f].matchedStartUrls[i]
       IN IF value.startUrl = Null
            THEN SetFlow(f, [flow[f] EXCEPT !.pc = "org_new"])
            ELSE SetFlow(f, [flow[f] EXCEPT !.pc = "getToken",
                                            !.orgUrl = <<value>>])
  /\ UNCHANGED <<localStorage, now, sso, hist, calls, issued>>

(* line 197 storing the new entry alone *)
PushNewOrgOnly(startUrls, newOrg) == <<newOrg>>

(* line 197: startUrls.push(newOrg) *)
PushNewOrg(startUrls, newOrg) == Append(startUrls, newOrg)

(* lines 173-200 with the list read again from the cache before the push *)
OrgAddNewRereads(f) ==
  /\ flow[f].pc = "org_new"
  /\ \E newOrg \in NewOrgInputs :
       LET startUrls ==
             PushNewOrg(AddSentinel(LoadStartUrls(localStorage[StartUrlsKey])),
                        newOrg)
       IN /\ localStorage' = [localStorage EXCEPT
                                ![StartUrlsKey] = StringifyOrgs(startUrls)]
          /\ SetFlow(f, [flow[f] EXCEPT !.pc = "getToken",
                                        !.startUrls = startUrls,
                                        !.orgUrl = <<newOrg>>])
          /\ SetHist(f, [hist[f] EXCEPT
                           !.prompts = @ + 3,
                           !.writes = Append(@, StartUrlsKey)])
          /\ issued' = [issued EXCEPT ![StartUrlsKey] = <<startUrls>>]
  /\ UNCHANGED <<now, sso, calls>>

(* lines 173-200: the three text prompts, push, setItem, return newOrg *)
OrgAddNew(f) ==
  /\ flow[f].pc = "org_new"
  /\ \E newOrg \in NewOrgInputs :
       LET startUrls == PushNewOrg(flow[f].startUrls, newOrg)
       IN /\ localStorage' = [localStorage EXCEPT
                                ![StartUrlsKey] = StringifyOrgs(startUrls)]
          /\ SetFlow(f, [flow[f] EXCEPT !.pc = "getToken",
                                        !.startUrls = startUrls,
                                        !.orgUrl = <<newOrg>>])
          /\ SetHist(f, [hist[f] EXCEPT
                           !.prompts = @ + 3,
                           !.writes = Append(@, StartUrlsKey)])
          /\ issued' = [issued EXCEPT ![StartUrlsKey] = <<startUrls>>]
  /\ UNCHANGED <<now, sso, calls>>

-----------------------------------------------------------------------------
(* getToken *)

(* What the identity provider may answer to a successful createToken for a *)
(* device authorization started with startUrl.                             *)
ExpiresInValues == {1}
TokenResponses(startUrl) ==
  { [accessToken |-> <<"at", startUrl>>, expiresIn |-> e] :
      e \in ExpiresInValues }

CreateTokenErrors == {"authorization_pending", "slow_down", "other"}

RegisterError == "Error registering SSO client: "
DeviceAuthError == "Error starting device authorization: "
TimeoutError == "Error creating token: Timeout"

(* line 272 without the conversion of seconds to milliseconds *)
ExpireTimeInSeconds(token, t) == token.expiresIn + t

(* line 272: new Date(token.expiresIn * 1000 + Date.now()) *)
ExpireTime(token, t) == token.expiresIn * MsPerSecond + t

(* the comparison of line 222 turned around *)
StillValidInverted(entry, t) == NewDate(entry.expireTime) < t

(* the comparison of line 222 letting the instant of expiry count as valid *)
StillValidAtExpiry(entry, t) == NewDate(entry.expireTime) >= t

(* line 222: new Date(token.expireTime) > new Date() *)
StillValid(entry, t) == NewDate(entry.expireTime) > t

(* The getOrgUrl locals are out of scope once getToken runs. *)
EnterGetToken(f) ==
  [flow[f] EXCEPT !.matchOrg = <<>>, !.startUrls = <<>>,
                  !.matchedStartUrls = <<>>,
                  !.cacheKey = CacheKey(flow[f].orgUrl[1].name)]

(* lines 212-225 with an entry found expired removed from the cache *)
getTokenRemovesExpired(f) ==
  /\ flow[f].pc = "getToken"
  /\ sso' = flow[f].orgUrl[1].region
  /\ LET entered     == EnterGetToken(f)
         cachedToken == localStorage[entered.cacheKey]
     IN IF ~Truthy(cachedToken)
          THEN /\ SetFlow(f, [entered EXCEPT !.pc = "registerClient"])
               /\ SetHist(f, Stage(f, "getToken"))
               /\ UNCHANGED localStorage
          ELSE IF ~IsJson(cachedToken)
          THEN /\ Fail(f, <<"SyntaxError">>)
               /\ SetHist(f, Stage(f, "getToken"))
               /\ UNCHANGED localStorage
          ELSE IF StillValid(ParseToken(cachedToken), now)
          THEN /\ SetFlow(f, [entered EXCEPT
                                !.pc = "getAccount",
                                !.token = <<ParseToken(cachedToken).token>>])
               /\ SetHist(f, [Stage(f, "getToken") EXCEPT !.fromCache = TRUE])
               /\ UNCHANGED localStorage
          ELSE /\ SetFlow(f, [entered EXCEPT !.pc = "registerClient"])
               /\ SetHist(f, Stage(f, "getToken"))
               /\ localStorage' =
                    [localStorage EXCEPT ![entered.cacheKey] = NoItem]
  /\ UNCHANGED <<now, calls, issued>>

(* lines 212-225: the SSO client, the cache key, the cached token *)
getToken(f) ==
  /\ flow[f].pc = "getToken"
  /\ sso' = flow[f].orgUrl[1].region
  /\ LET entered     == EnterGetToken(f)
         cachedToken == localStorage[entered.cacheKey]
     IN IF ~Truthy(cachedToken)
          THEN /\ SetFlow(f, [entered EXCEPT !.pc = "registerClient"])
               /\ SetHist(f, Stage(f, "getToken"))
          ELSE IF ~IsJson(cachedToken)
          THEN /\ Fail(f, <<"SyntaxError">>)
               /\ SetHist(f, Stage(f, "getToken"))
          ELSE IF StillValid(ParseToken(cachedToken), now)
          THEN /\ SetFlow(f, [entered EXCEPT
                                !.pc = "getAccount",
                                !.token = <<ParseToken(cachedToken).token>>])
               /\ SetHist(f, [Stage(f, "getToken") EXCEPT !.fromCache = TRUE])
          ELSE /\ SetFlow(f, [entered EXCEPT !.pc = "registerClient"])
               /\ SetHist(f, Stage(f, "getToken"))
  /\ UNCHANGED <<localStorage, now, calls, issued>>

(* lines 230-240 with a failed registration tried again *)
registerClientRetries(f) ==
  /\ flow[f].pc = "registerClient"
  /\ \/ SetFlow(f, [flow[f] EXCEPT !.pc = "startDeviceAuthorization"])
     \/ SetFlow(f, flow[f])
  /\ SetHist(f, [hist[f] EXCEPT !.regCalls = @ + 1])
  /\ UNCHANGED <<localStorage, now, sso, calls, issued>>

(* lines 230-240 *)
registerClient(f) ==
  /\ flow[f].pc = "registerClient"
  /\ \/ SetFlow(f, [flow[f] EXCEPT !.pc = "startDeviceAuthorization"])
     \/ Fail(f, <<RegisterError, "e.message">>)
  /\ SetHist(f, [hist[f] EXCEPT !.regCalls = @ + 1])
  /\ UNCHANGED <<localStorage, now, sso, calls, issued>>

(* lines 242-252 *)
startDeviceAuthorization(f) ==
  /\ flow[f].pc = "startDeviceAuthorization"
  /\ \/ SetFlow(f, [flow[f] EXCEPT !.pc = "window.open"])
     \/ Fail(f, <<DeviceAuthError, "e.message">>)
  /\ SetHist(f, [hist[f] EXCEPT !.devCalls = @ + 1])
  /\ UNCHANGED <<localStorage, now, sso, calls, issued>>

(* lines 254-256: window.open(ssoUrl.verificationUriComplete) *)
windowOpen(f) ==
  /\ flow[f].pc = "window.open"
  /\ SetFlow(f, [flow[f] EXCEPT !.pc = "delay",
                                !.maxIterations = MaxIterations])
  /\ SetHist(f, [hist[f] EXCEPT !.displays = @ + 1])
  /\ UNCHANGED <<localStorage, now, sso, calls, issued>>

(* line 259 with the promise of delay not awaited *)
delayNotAwaited(f) ==
  /\ flow[f].pc = "delay"
  /\ SetFlow(f, [flow[f] EXCEPT !.pc = "createToken"])
  /\ UNCHANGED <<localStorage, now, sso, hist, calls, issued>>

(* line 259: await delay(1000) *)
delay(f) ==
  /\ flow[f].pc = "delay"
  /\ SetFlow(f, [flow[f] EXCEPT !.pc = "createToken"])
  /\ SetHist(f, [hist[f] EXCEPT !.delays = @ + DelayMs])
  /\ UNCHANGED <<localStorage, now, sso, calls, issued>>

(* lines 261-275: createToken answers with a token *)
createTokenSucceeds(f) ==
  /\ flow[f].pc = "createToken"
  /\ \E token \in TokenResponses(flow[f].orgUrl[1].startUrl) :
       /\ localStorage' =
            [localStorage EXCEPT ![flow[f].cacheKey] =
               StringifyToken(token, ExpireTime(token, now))]
       /\ SetFlow(f, [flow[f] EXCEPT !.pc = "getAccount",
                                     !.token = <<token>>])
       /\ issued' = [issued EXCEPT ![flow[f].cacheKey] = <<token>>]
  /\ SetHist(f, [hist[f] EXCEPT !.createCalls = @ + 1,
                                !.redeemed = TRUE,
                                !.writes = Append(@, flow[f].cacheKey)])
  /\ UNCHANGED <<now, sso, calls>>

(* lines 261-282: createToken answers with a token and localStorage.setItem *)
(* (line 270) throws, the store being full or not writable; the throw is   *)
(* inside the try, so the catch block logs it and uses up one iteration,   *)
(* and the token is dropped.                                               *)
createTokenWriteThrows(f) ==
  /\ flow[f].pc = "createToken"
  /\ \E token \in TokenResponses(flow[f].orgUrl[1].startUrl) :
       LET maxIterations == flow[f].maxIterations - 1
       IN IF maxIterations > 0
            THEN SetFlow(f, [flow[f] EXCEPT
                              !.pc = "delay",
                              !.maxIterations = maxIterations])
            ELSE Fail(f, <<TimeoutError>>)
  /\ SetHist(f, [hist[f] EXCEPT !.createCalls = @ + 1,
                                !.redeemed = TRUE])
  /\ UNCHANGED <<localStorage, now, sso, calls, issued>>

(* line 282 with the bound off by one *)
LoopAgainOffByOne(maxIterations) == maxIterations >= 0

(* line 282: } while(maxIterations > 0) *)
LoopAgain(maxIterations) == maxIterations > 0

(* lines 261-284 with an error that is neither authorization_pending nor   *)
(* slow_down thrown on to the caller                                       *)
createTokenThrowsOn(f, errors, record) ==
  /\ flow[f].pc = "createToken"
  /\ \E e \in errors :
       /\ LET maxIterations == flow[f].maxIterations - 1
          IN IF e \notin {"authorization_pending", "slow_down"}
               THEN Fail(f, <<"e", e>>)
               ELSE IF maxIterations > 0
               THEN SetFlow(f, [flow[f] EXCEPT
                                 !.pc = "delay",
                                 !.maxIterations = maxIterations])
               ELSE Fail(f, <<TimeoutError>>)
       /\ SetHist(f, [hist[f] EXCEPT
                        !.createCalls = @ + 1,
                        !.caught = IF record THEN <<e>> ELSE <<>>])
  /\ UNCHANGED <<localStorage, now, sso, calls, issued>>

(* lines 276-284: createToken throws e, with e.error among `errors`; the   *)
(* error is logged unless it is authorization_pending or slow_down, and    *)
(* whichever it is, one iteration is used up.  `record` says whether the   *)
(* run keeps the error last caught.                                        *)
createTokenThrows(f, errors, record) ==
  /\ flow[f].pc = "createToken"
  /\ \E e \in errors :
       /\ LET maxIterations == flow[f].maxIterations - 1
          IN IF LoopAgain(maxIterations)
               THEN SetFlow(f, [flow[f] EXCEPT
                                 !.pc = "delay",
                                 !.maxIterations = maxIterations])
               ELSE Fail(f, <<TimeoutError>>)
       /\ SetHist(f, [hist[f] EXCEPT
                        !.createCalls = @ + 1,
                        !.caught = IF record THEN <<e>> ELSE <<>>])
  /\ UNCHANGED <<localStorage, now, sso, calls, issued>>

createTokenFails(f) == createTokenThrows(f, CreateTokenErrors, FALSE)

(* The wall clock advances between any two steps. *)
Tick ==
  /\ now + TickMs <= MaxNow
  /\ now' = now + TickMs
  /\ UNCHANGED <<localStorage, sso, flow, hist, calls, issued>>

-----------------------------------------------------------------------------
(* getAccount and getRole *)

(* What sso.listAccounts and sso.listAccountRoles may hold. *)
AccountList ==
  { [accountId |-> "1", accountName |-> NameA],
    [accountId |-> "2", accountName |-> NameAD] }
RoleList == { [roleName |-> NameA], [roleName |-> NameAD] }

(* One page of a listing: no item or one item. *)
PagesOf(S) == {<<>>} \cup {<<x>> : x \in S}

(* lines 302-305, 350-353: the map over a page *)
AccountOf(acc) == [accountId |-> acc.accountId, name |-> acc.accountName]

AccountPage(page) == [i \in 1..Len(page) |-> AccountOf(page[i])]

(* lines 350-353 taking the account id from elsewhere than the parameter *)
RoleOfFirstAccount(accountId, r) == [accountId |-> "1", name |-> r.roleName]

RoleOf(accountId, r) == [accountId |-> accountId, name |-> r.roleName]

RolePage(accountId, page) ==
  [i \in 1..Len(page) |-> RoleOf(accountId, page[i])]

(* a.title.localeCompare(b.title) <= 0, for names over the letters used *)
Rank(c) == CASE c = "a" -> 1 [] c = "d" -> 2 [] OTHER -> 0
RECURSIVE LocaleLeq(_, _)
LocaleLeq(a, b) ==
  IF a = <<>> THEN TRUE
  ELSE IF b = <<>> THEN FALSE
  ELSE IF Rank(Head(a)) # Rank(Head(b)) THEN Rank(Head(a)) < Rank(Head(b))
  ELSE LocaleLeq(Tail(a), Tail(b))

(* Array.prototype.sort by title: a stable insertion sort *)
RECURSIVE InsertByName(_, _)
InsertByName(sorted, x) ==
  IF sorted = <<>> THEN <<x>>
  ELSE IF LocaleLeq(Head(sorted).name, x.name)
    THEN <<Head(sorted)>> \o InsertByName(Tail(sorted), x)
    ELSE <<x>> \o sorted
RECURSIVE SortByName(_)
SortByName(list) ==
  IF list = <<>> THEN <<>>
  ELSE InsertByName(SortByName(SubSeq(list, 1, Len(list) - 1)),
                    list[Len(list)])

(* lines 309-312, 358-361 without the fallback to the whole list *)
MatchedOnly(list, match) == Filter(list, match)

(* lines 309-312, 358-361: the filtered list, or the whole list if it is empty *)
MatchedOrAll(list, match) ==
  IF Len(Filter(list, match)) = 0 THEN list ELSE Filter(list, match)

(* lines 313, 362 testing the length of the whole list as well *)
SingleMatchOfSingleton(list, match) ==
  Len(Filter(list, match)) = 1 /\ Len(list) = 1

(* lines 313, 362 *)
SingleMatch(list, match) == Len(Filter(list, match)) = 1

(* lines 296-298, 306: params.nextToken of the next listing call without   *)
(* the token of the last response                                          *)
NextTokenParamDropped(f) == <<>>

(* lines 296-298, 306: params.nextToken of the next listing call: absent   *)
(* at first, then the nextToken of the last response                       *)
NextTokenParam(f) == flow[f].nextToken

(* lines 301, 349: one more listing call, made with params.nextToken *)
Listed(f) ==
  [hist[f] EXCEPT !.listCalls = @ + 1,
                  !.sent = Append(@, NextTokenParam(f)),
                  !.client = sso]

(* lines 309-325, 358-374, once the last page has arrived: return the only *)
(* match, or ask the chooser; `field` is the local that gets the result.   *)
Resolve(f, list, field, next, select) ==
  IF SingleMatch(list, flow[f].match[1])
    THEN /\ SetFlow(f, [flow[f] EXCEPT
                          !.pc = next, ![field] = <<Filter(list, flow[f].match[1])[1]>>,
                          !.list = list, !.nextToken = <<>>,
                          !.matched = Filter(list, flow[f].match[1])])
         /\ SetHist(f, Listed(f))
    ELSE /\ SetFlow(f, [flow[f] EXCEPT
                          !.pc = select, !.list = list, !.nextToken = <<>>,
                          !.matched = SortByName(MatchedOrAll(list, flow[f].match[1]))])
         /\ SetHist(f, [Listed(f) EXCEPT !.prompts = @ + 1])

(* One listing call: it throws, or returns a page with or without a        *)
(* nextToken; with one the loop calls again, without it the list resolves. *)
ListPage(f, pages, stage, field, next, select) ==
  \/ /\ Fail(f, <<"e", stage>>)
     /\ SetHist(f, Listed(f))
  \/ \E page \in pages :
       LET list == flow[f].list \o page
       IN \/ /\ hist[f].listCalls + 1 < MaxPages
             /\ SetFlow(f, [flow[f] EXCEPT
                              !.list = list,
                              !.nextToken = <<hist[f].listCalls + 1>>])
             /\ SetHist(f, Listed(f))
          \/ Resolve(f, list, field, next, select)

(* lines 293-298 *)
getAccount(f) ==
  /\ flow[f].pc = "getAccount"
  /\ \E matchAcc \in Matchers :
       SetFlow(f, [flow[f] EXCEPT !.pc = "listAccounts", !.cacheKey = <<>>,
                                  !.maxIterations = 0,
                                  !.match = <<matchAcc>>, !.list = <<>>,
                                  !.nextToken = <<>>, !.matched = <<>>])
  /\ SetHist(f, Stage(f, "getAccount"))
  /\ UNCHANGED <<localStorage, now, sso, calls, issued>>

(* lines 300-325 *)
listAccounts(f) ==
  /\ flow[f].pc = "listAccounts"
  /\ ListPage(f, {AccountPage(p) : p \in PagesOf(AccountList)},
              "listAccounts", "account", "getRole", "acc_select")
  /\ UNCHANGED <<localStorage, now, sso, calls, issued>>

(* lines 320-330, 369-379: the chooser answers; cancelled or empty, the    *)
(* read of value.accountId throws a TypeError                              *)
SelectCancel(f) ==
  /\ flow[f].pc \in {"acc_select", "role_select"}
  /\ Fail(f, <<"TypeError">>)
  /\ UNCHANGED <<localStorage, now, sso, hist, calls, issued>>

AccSelect(f) ==
  /\ flow[f].pc = "acc_select"
  /\ \E i \in 1..Len(flow[f].matched) :
       SetFlow(f, [flow[f] EXCEPT !.pc = "getRole",
                                  !.account = <<flow[f].matched[i]>>])
  /\ UNCHANGED <<localStorage, now, sso, hist, calls, issued>>

(* lines 340-346 *)
getRole(f) ==
  /\ flow[f].pc = "getRole"
  /\ \E matchRole \in Matchers :
       SetFlow(f, [flow[f] EXCEPT !.pc = "listAccountRoles",
                                  !.match = <<matchRole>>, !.list = <<>>,
                                  !.nextToken = <<>>, !.matched = <<>>])
  /\ SetHist(f, Stage(f, "getRole"))
  /\ UNCHANGED <<localStorage, now, sso, calls, issued>>

(* lines 348-374 *)
listAccountRoles(f) ==
  /\ flow[f].pc = "listAccountRoles"
  /\ LET accountId == flow[f].account[1].accountId
     IN ListPage(f, {RolePage(accountId, p) : p \in PagesOf(RoleList)},
                 "listAccountRoles", "role", "getRoleCredentials",
                 "role_select")
  /\ UNCHANGED <<localStorage, now, sso, calls, issued>>

RoleSelect(f) ==
  /\ flow[f].pc = "role_select"
  /\ \E i \in 1..Len(flow[f].matched) :
       SetFlow(f, [flow[f] EXCEPT !.pc = "getRoleCredentials",
                                  !.role = <<flow[f].matched[i]>>])
  /\ UNCHANGED <<localStorage, now, sso, hist, calls, issued>>

-----------------------------------------------------------------------------
(* getRoleCredentials *)

(* What sso.getRoleCredentials may answer to a request. *)
Expirations == {1000, 2000}
RoleCredentials(accessToken, accountId, roleName) ==
  { [accessKeyId |-> <<"AK", accessToken, accountId, roleName>>,
     secretAccessKey |-> "SK", sessionToken |-> "ST", expiration |-> e] :
      e \in Expirations }

(* line 399: new Date(ms) is the Date whose time value is ms *)
DateOfMs(ms) == [time |-> ms]

(* lines 395-400 with the expiration read as seconds *)
CredentialsFromSeconds(rc) ==
  [accessKeyId |-> rc.accessKeyId, secretAccessKey |-> rc.secretAccessKey,
   sessionToken |-> rc.sessionToken,
   expireTime |-> DateOfMs(rc.expiration * MsPerSecond)]

(* lines 395-400 *)
Credentials(rc) ==
  [accessKeyId |-> rc.accessKeyId, secretAccessKey |-> rc.secretAccessKey,
   sessionToken |-> rc.sessionToken, expireTime |-> DateOfMs(rc.expiration)]

(* lines 388-401 *)
getRoleCredentials(f) ==
  /\ flow[f].pc = "getRoleCredentials"
  /\ LET token   == flow[f].token[1]
         ssoRole == flow[f].role[1]
         cleared == [flow[f] EXCEPT !.match = <<>>, !.list = <<>>,
                                    !.matched = <<>>]
     IN \/ /\ Fail(f, <<"e", "getRoleCredentials">>)
           /\ SetHist(f, [Stage(f, "getRoleCredentials") EXCEPT
                            !.credCalls = @ + 1,
                            !.client = sso])
        \/ \E rc \in RoleCredentials(token.accessToken, ssoRole.accountId,
                                      ssoRole.name) :
             /\ SetFlow(f, [cleared EXCEPT
                              !.pc = "done",
                              !.credentials = <<Credentials(rc)>>])
             /\ SetHist(f, [Stage(f, "getRoleCredentials") EXCEPT
                              !.credCalls = @ + 1,
                              !.client = sso,
                              !.response = <<rc>>])
  /\ UNCHANGED <<localStorage, now, sso, calls, issued>>

-----------------------------------------------------------------------------
Step(f) ==
  \/ authenticate(f)
  \/ getOrgUrl(f)
  \/ OrgSelect(f)
  \/ OrgSelectCancel(f)
  \/ OrgAddNew(f)
  \/ getToken(f)
  \/ registerClient(f)
  \/ startDeviceAuthorization(f)
  \/ windowOpen(f)
  \/ delay(f)
  \/ createTokenSucceeds(f)
  \/ createTokenFails(f)
  \/ getAccount(f)
  \/ listAccounts(f)
  \/ AccSelect(f)
  \/ getRole(f)
  \/ listAccountRoles(f)
  \/ RoleSelect(f)
  \/ SelectCancel(f)
  \/ getRoleCredentials(f)
  \/ Return(f)

Next == Tick \/ \E f \in MainFlows : Step(f)

Spec == Init /\ [][Next]_vars

(* The runs in which the user never completes the device authorization:    *)
(* every createToken attempt fails with authorization_pending.             *)
createTokenPending(f) == createTokenThrows(f, {"authorization_pending"}, FALSE)

StepPending(f) ==
  \/ authenticate(f)
  \/ getOrgUrl(f)
  \/ OrgSelect(f)
  \/ OrgSelectCancel(f)
  \/ OrgAddNew(f)
  \/ getToken(f)
  \/ registerClient(f)
  \/ startDeviceAuthorization(f)
  \/ windowOpen(f)
  \/ delay(f)
  \/ createTokenPending(f)
  \/ Return(f)

NextPending == Tick \/ \E f \in MainFlows : StepPending(f)

SpecPending == Init /\ [][NextPending]_vars

(* The runs of getToken alone, keeping the error each failed createToken   *)
(* attempt was caught with.                                                *)
createTokenCaught(f) == createTokenThrows(f, CreateTokenErrors, TRUE)

getTokenReturns(f) ==
  /\ flow[f].pc = "getAccount"
  /\ SetFlow(f, [IdleFlow EXCEPT !.pc = "done", !.token = flow[f].token])
  /\ UNCHANGED <<localStorage, now, sso, hist, calls, issued>>

StepPoll(f) ==
  \/ authenticate(f)
  \/ getOrgUrl(f)
  \/ OrgSelect(f)
  \/ OrgSelectCancel(f)
  \/ OrgAddNew(f)
  \/ getToken(f)
  \/ registerClient(f)
  \/ startDeviceAuthorization(f)
  \/ windowOpen(f)
  \/ delay(f)
  \/ createTokenSucceeds(f)
  \/ createTokenCaught(f)
  \/ getTokenReturns(f)
  \/ Return(f)

NextPoll == Tick \/ \E f \in MainFlows : StepPoll(f)

SpecPoll == Init /\ [][NextPoll]_vars

(* The runs of getToken alone in which a write to the cache may throw. *)
StepWrite(f) ==
  \/ authenticate(f)
  \/ getOrgUrl(f)
  \/ OrgSelect(f)
  \/ OrgSelectCancel(f)
  \/ OrgAddNew(f)
  \/ getToken(f)
  \/ registerClient(f)
  \/ startDeviceAuthorization(f)
  \/ windowOpen(f)
  \/ delay(f)
  \/ createTokenSucceeds(f)
  \/ createTokenWriteThrows(f)
  \/ createTokenFails(f)
  \/ getTokenReturns(f)
  \/ Return(f)

NextWrite == Tick \/ \E f \in MainFlows : StepWrite(f)

SpecWrite == Init /\ [][NextWrite]_vars

(* Two authenticate calls in progress in one process, as under             *)
(* Promise.all: they share the module, so localStorage and the variable    *)
(* sso, and each await lets the other call run.  The user approves each    *)
(* device authorization before the first poll, and the calls are followed  *)
(* up to the end of their listing of accounts.                             *)
StepShared(f) ==
  \/ authenticate(f)
  \/ getOrgUrl(f)
  \/ OrgSelect(f)
  \/ OrgAddNew(f)
  \/ getToken(f)
  \/ registerClient(f)
  \/ startDeviceAuthorization(f)
  \/ windowOpen(f)
  \/ delay(f)
  \/ createTokenSucceeds(f)
  \/ getAccount(f)
  \/ listAccounts(f)
  \/ Return(f)

NextShared == \E f \in Flows : StepShared(f)

SpecShared == Init /\ [][NextShared]_vars

(* Two processes that share the cache directory, each calling the exported *)
(* getOrgUrl once or more; a process has its own locals and nothing else   *)
(* than localStorage is shared.  The steps of the two interleave freely:   *)
(* the code takes no lock between getItem (line 138) and setItem (198).    *)
getOrgUrlReturns(f) ==
  /\ flow[f].pc = "getToken"
  /\ SetFlow(f, [IdleFlow EXCEPT !.pc = "done"])
  /\ UNCHANGED <<localStorage, now, sso, hist, calls, issued>>

StepRace(f) ==
  \/ authenticate(f)
  \/ getOrgUrl(f)
  \/ OrgSelect(f)
  \/ OrgSelectCancel(f)
  \/ OrgAddNew(f)
  \/ getOrgUrlReturns(f)
  \/ Return(f)

NextRace == \E f \in Flows : StepRace(f)

SpecRace == Init /\ [][NextRace]_vars

-----------------------------------------------------------------------------
(* Properties *)

Last(seq) == seq[Len(seq)]
TokenKeyOf(f) == <<"s","s","o","-">> \o flow[f].orgUrl[1].name
InFuture(stored) == stored.kind = "json" /\ stored.json.expireTime.iso > now
NotInFuture(stored) ==
  stored.kind = "none"
    \/ (stored.kind = "json" /\ stored.json.expireTime.iso <= now)

(* C1: when getToken finds, under 'sso-<orgName>', an entry whose          *)
(* expireTime is later than the current time, it returns the token that    *)
(* the earlier createToken stored there, having made no registerClient, no *)
(* startDeviceAuthorization and no createToken call and no cache write.    *)
C1_Step(f) ==
  (/\ flow[f].pc = "getToken"
   /\ flow'[f].pc # "getToken"
   /\ InFuture(localStorage[TokenKeyOf(f)]))
  => /\ flow'[f].pc = "getAccount"
     /\ flow'[f].token = issued[TokenKeyOf(f)]
     /\ Len(issued[TokenKeyOf(f)]) = 1
     /\ hist'[f].regCalls = 0
     /\ hist'[f].devCalls = 0
     /\ hist'[f].createCalls = 0
     /\ hist'[f].writes = <<>>
     /\ localStorage' = localStorage

C1_CachedTokenReturned == [][\A f \in Flows : C1_Step(f)]_vars

C1_Witness ==
  \E f \in Flows :
    /\ flow[f].pc = "getAccount"
    /\ hist[f].fromCache
    /\ hist[f].regCalls + hist[f].devCalls + hist[f].createCalls = 0
    /\ flow[f].token = issued[TokenKeyOf(f)]
    /\ Len(flow[f].token) = 1

(* C2: without a cached token whose expireTime is in the future, getToken  *)
(* returns nothing from the cache and goes on to registerClient; it calls  *)
(* registerClient at most once, then startDeviceAuthorization at most      *)
(* once, then displays the verification URI once, and only then delays and *)
(* calls createToken; a token not taken from the cache is returned by a    *)
(* createToken call that came after all three.                             *)
C2_Order(f) ==
  LET h == hist[f]
  IN /\ h.regCalls <= 1 /\ h.devCalls <= 1 /\ h.displays <= 1
     /\ h.devCalls <= h.regCalls
     /\ h.displays <= h.devCalls
     /\ (h.delays > 0 \/ h.createCalls > 0) => h.displays = 1
     /\ flow[f].pc = "startDeviceAuthorization" =>
          h.regCalls = 1 /\ h.devCalls = 0
     /\ flow[f].pc = "window.open" => h.devCalls = 1 /\ h.displays = 0
     /\ flow[f].pc \in {"delay", "createToken"} => h.displays = 1

C2_Step(f) ==
  /\ (/\ flow[f].pc = "getToken"
      /\ flow'[f].pc # "getToken"
      /\ NotInFuture(localStorage[TokenKeyOf(f)]))
     => /\ flow'[f].pc = "registerClient"
        /\ flow'[f].token = <<>>
        /\ ~hist'[f].fromCache
  /\ (/\ flow[f].pc # "getAccount"
      /\ flow'[f].pc = "getAccount"
      /\ ~hist'[f].fromCache)
     => /\ flow[f].pc = "createToken"
        /\ hist'[f].regCalls = 1
        /\ hist'[f].devCalls = 1
        /\ hist'[f].displays = 1
        /\ hist'[f].createCalls >= 1

C2_FullSequenceInOrder ==
  /\ [](\A f \in Flows : C2_Order(f))
  /\ [][\A f \in Flows : C2_Step(f)]_vars

C2_Witness ==
  \E f \in Flows :
    /\ flow[f].pc = "createToken"
    /\ hist[f].regCalls = 1 /\ hist[f].devCalls = 1 /\ hist[f].displays = 1
    /\ localStorage[TokenKeyOf(f)].kind = "json"
    /\ localStorage[TokenKeyOf(f)].json.expireTime.iso <= now

(* C3: when every createToken attempt fails with authorization_pending,    *)
(* the polling loop ends after exactly 120 attempts, each preceded by a    *)
(* delay of one second, and throws 'Error creating token: Timeout', which is neither the *)
(* registration nor the device-authorization error.                        *)
C3_TimeoutAfter120 ==
  \A f \in Flows :
    LET h == hist[f]
    IN /\ h.createCalls <= 120
       /\ flow[f].pc = "delay" => h.delays = h.createCalls * 1000
       /\ flow[f].pc = "createToken" => h.delays = (h.createCalls + 1) * 1000
       /\ (flow[f].pc = "failed" /\ h.createCalls > 0) =>
            /\ flow[f].error = <<"Error creating token: Timeout">>
            /\ h.createCalls = 120
            /\ h.delays = 120 * 1000
            /\ flow[f].error[1] # RegisterError
            /\ flow[f].error[1] # DeviceAuthError

C3_Witness ==
  \E f \in Flows :
    /\ flow[f].pc = "failed"
    /\ flow[f].error = <<"Error creating token: Timeout">>
    /\ hist[f].createCalls = 120
    /\ hist[f].delays = 120 * 1000

(* C4: when createToken succeeds, getToken stores {token, expireTime} with *)
(* expireTime = now + expiresIn seconds under 'sso-<orgName>' of its       *)
(* organization, writes no other key, and returns that token.              *)
C4_Step(f) ==
  (flow[f].pc = "createToken" /\ flow'[f].pc = "getAccount")
  => LET key   == TokenKeyOf(f)
         token == flow'[f].token[1]
     IN /\ Len(flow'[f].token) = 1
        /\ issued'[key] = <<token>>
        /\ localStorage'[key] =
             [kind |-> "json",
              json |-> [token |-> token,
                        expireTime |-> [iso |-> now + token.expiresIn * 1000]]]
        /\ \A k \in Keys \ {key} : localStorage'[k] = localStorage[k]
        /\ hist'[f].writes = <<key>>

C4_TokenStoredAndReturned == [][\A f \in Flows : C4_Step(f)]_vars

C4_Witness ==
  \E f \in Flows :
    /\ flow[f].pc = "getAccount"
    /\ ~hist[f].fromCache
    /\ hist[f].createCalls >= 1
    /\ hist[f].writes = <<TokenKeyOf(f)>>
    /\ localStorage[TokenKeyOf(f)].json.token = flow[f].token[1]

(* C5: a failed registerClient or startDeviceAuthorization makes getToken  *)
(* throw at once, with the prefix 'Error registering SSO client: ' or      *)
(* 'Error starting device authorization: ': the call is made once, no      *)
(* later remote call is made, the verification URI is not displayed and    *)
(* the polling loop is not entered.                                        *)
C5_State(f) ==
  LET h == hist[f]
  IN /\ h.regCalls <= 1 /\ h.devCalls <= 1
     /\ (flow[f].pc = "failed" /\ h.regCalls = 1 /\ h.devCalls = 0) =>
          /\ flow[f].error = <<"Error registering SSO client: ", "e.message">>
          /\ h.displays = 0 /\ h.delays = 0 /\ h.createCalls = 0
     /\ (flow[f].pc = "failed" /\ h.devCalls = 1 /\ h.displays = 0) =>
          /\ flow[f].error =
               <<"Error starting device authorization: ", "e.message">>
          /\ h.regCalls = 1 /\ h.delays = 0 /\ h.createCalls = 0

C5_Step(f) ==
  /\ (flow[f].pc = "registerClient" /\ flow'[f].pc # "registerClient") =>
       \/ flow'[f].pc = "startDeviceAuthorization"
       \/ flow'[f].pc = "failed" /\ flow'[f].error[1] = RegisterError
  /\ (/\ flow[f].pc = "startDeviceAuthorization"
      /\ flow'[f].pc # "startDeviceAuthorization") =>
       \/ flow'[f].pc = "window.open"
       \/ flow'[f].pc = "failed" /\ flow'[f].error[1] = DeviceAuthError

C5_FatalStageErrors ==
  /\ [](\A f \in Flows : C5_State(f))
  /\ [][\A f \in Flows : C5_Step(f)]_vars

C5_Witness ==
  \E f \in Flows :
    /\ flow[f].pc = "failed"
    /\ flow[f].error[1] = DeviceAuthError
    /\ hist[f].regCalls = 1 /\ hist[f].devCalls = 1
    /\ hist[f].displays = 0 /\ hist[f].createCalls = 0

(* C6: authenticate runs getOrgUrl, getToken, getAccount, getRole and      *)
(* getRoleCredentials in this order, each once; getRole lists the roles of *)
(* the resolved account and getRoleCredentials asks for the resolved role  *)
(* with the token of getToken; a stage that fails ends the call with its   *)
(* error and no later stage starts; a call that ends well returns the      *)
(* credentials of the last stage.                                          *)
Stages ==
  <<"getOrgUrl", "getToken", "getAccount", "getRole", "getRoleCredentials">>

StageOfPc(pc) ==
  CASE pc \in {"org_select", "org_new"} -> 1
    [] pc \in {"registerClient", "startDeviceAuthorization", "window.open",
               "delay", "createToken"} -> 2
    [] pc \in {"listAccounts", "acc_select"} -> 3
    [] pc \in {"listAccountRoles", "role_select"} -> 4
    [] pc = "done" -> 5
    [] pc = "getOrgUrl" -> 0
    [] pc = "getToken" -> 1
    [] pc = "getAccount" -> 2
    [] pc = "getRole" -> 3
    [] pc = "getRoleCredentials" -> 4
    [] OTHER -> 0

ErrorsOfStage(n) ==
  CASE n = 1 -> {<<"TypeError">>}
    [] n = 2 -> {<<"SyntaxError">>, <<RegisterError, "e.message">>,
                 <<DeviceAuthError, "e.message">>, <<TimeoutError>>}
    [] n = 3 -> {<<"e", "listAccounts">>, <<"TypeError">>}
    [] n = 4 -> {<<"e", "listAccountRoles">>, <<"TypeError">>}
    [] n = 5 -> {<<"e", "getRoleCredentials">>}
    [] OTHER -> {}

C6_State(f) ==
  LET st == hist[f].stages
      pc == flow[f].pc
  IN /\ Len(st) <= 5
     /\ st = SubSeq(Stages, 1, Len(st))
     /\ pc \notin {"idle", "failed"} => Len(st) = StageOfPc(pc)
     /\ pc = "failed" => Len(st) >= 1 /\ flow[f].error \in ErrorsOfStage(Len(st))
     /\ pc \in {"listAccountRoles", "role_select"} =>
          \A i \in 1..Len(flow[f].list) :
            flow[f].list[i].accountId = flow[f].account[1].accountId
     /\ pc = "getRoleCredentials" =>
          flow[f].role[1].accountId = flow[f].account[1].accountId
     /\ pc = "done" =>
          /\ st = Stages
          /\ flow[f].credentials[1].accessKeyId =
               <<"AK", flow[f].token[1].accessToken,
                 flow[f].account[1].accountId, flow[f].role[1].name>>
          /\ flow[f].role[1].accountId = flow[f].account[1].accountId

C6_Step(f) ==
  /\ flow[f].pc = "failed" =>
       \/ flow'[f] = flow[f] /\ hist'[f] = hist[f]
       \/ flow'[f].pc = "idle"
  /\ hist'[f].stages # hist[f].stages =>
       \/ hist'[f].stages = <<>>
       \/ /\ flow[f].pc \notin {"failed", "done"}
          /\ hist'[f].stages =
               Append(hist[f].stages, Stages[Len(hist[f].stages) + 1])

C6_StagesInOrder ==
  /\ [](\A f \in Flows : C6_State(f))
  /\ [][\A f \in Flows : C6_Step(f)]_vars

C6_Witness ==
  \E f \in Flows :
    /\ flow[f].pc = "done"
    /\ hist[f].stages = Stages
    /\ flow[f].account[1].accountId = "2"
    /\ flow[f].role[1].accountId = "2"
    /\ Len(flow[f].credentials) = 1

(* C7 (as amended): getOrgUrl filters the cached list together with the    *)
(* 'add new' sentinel; whenever exactly one entry of that list satisfies   *)
(* the filter and it is a cached organization, it is returned verbatim and *)
(* the chooser is not invoked; the chooser is invoked in no such case.     *)
OrgMatches(f) ==
  {i \in 1..Len(flow[f].startUrls) :
     createMatcher(flow[f].matchOrg[1], flow[f].startUrls[i])}

CachedOrgMatches(f) ==
  {i \in OrgMatches(f) : flow[f].startUrls[i].startUrl # Null}

StoredOrgs ==
  IF localStorage[StartUrlsKey].kind = "json"
    THEN {ParseOrgs(localStorage[StartUrlsKey])[i] :
            i \in 1..Len(localStorage[StartUrlsKey].json)}
    ELSE {}

C7_SingleMatchNoChooser ==
  \A f \in Flows :
    /\ flow[f].pc = "org_select" =>
         ~(Cardinality(OrgMatches(f)) = 1 /\ CachedOrgMatches(f) = OrgMatches(f))
    /\ (flow[f].pc = "getToken" /\ hist[f].prompts = 0) =>
         /\ Cardinality(OrgMatches(f)) = 1
         /\ CachedOrgMatches(f) = OrgMatches(f)
         /\ \A i \in OrgMatches(f) : flow[f].orgUrl = <<flow[f].startUrls[i]>>
         /\ flow[f].orgUrl[1] \in StoredOrgs
         /\ flow[f].orgUrl[1].startUrl # Null

C7_Witness ==
  \E f \in Flows :
    /\ flow[f].pc = "getToken"
    /\ hist[f].prompts = 0
    /\ flow[f].matchOrg[1].kind = "re"
    /\ Len(flow[f].startUrls) >= 2
    /\ flow[f].orgUrl[1] \in StoredOrgs

(* C7 as stated: the chooser is never invoked when exactly one cached      *)
(* organization satisfies the filter, whatever the filter, no filter       *)
(* included.                                                               *)
C7_Original ==
  \A f \in Flows :
    flow[f].pc = "org_select" => Cardinality(CachedOrgMatches(f)) # 1

(* C8: when no cached organization or more than one matches the filter,    *)
(* the chooser is given a list that is not empty and holds the 'add new'   *)
(* sentinel: the whole list when none matches, the matching organizations  *)
(* when several do.                                                        *)
C8_ChooserGetsCandidates ==
  \A f \in Flows :
    flow[f].pc = "org_select" =>
      LET choices == flow[f].matchedStartUrls
      IN /\ Len(choices) > 0
         /\ \E j \in 1..Len(choices) : choices[j].startUrl = Null
         /\ CachedOrgMatches(f) = {} => choices = flow[f].startUrls
         /\ \A i \in CachedOrgMatches(f) :
              \E j \in 1..Len(choices) : choices[j] = flow[f].startUrls[i]

(* C9: the 'add new' path appends the entry built from the three prompts   *)
(* to the list, stores the list under 'startUrls' with every organization  *)
(* that was stored there before, writes nothing else, and returns the new  *)
(* entry; no other step of getOrgUrl writes the cache.                     *)
OrgsOf(stored) ==
  IF stored.kind = "json"
    THEN LET isOrg(s) == s.startUrl # Null
         IN SelectSeq(ParseOrgs(stored), isOrg)
    ELSE <<>>

C9_Step(f) ==
  /\ (flow[f].pc = "org_new" /\ flow'[f].pc # "org_new") =>
       LET newOrg == flow'[f].orgUrl[1]
           after  == localStorage'[StartUrlsKey]
       IN /\ flow'[f].pc = "getToken"
          /\ newOrg \in NewOrgInputs
          /\ after.kind = "json"
          /\ OrgsOf(after) = Append(OrgsOf(localStorage[StartUrlsKey]), newOrg)
          /\ \A k \in Keys \ {StartUrlsKey} :
               localStorage'[k] = localStorage[k]
          /\ hist'[f].writes = <<StartUrlsKey>>
  /\ (flow[f].pc \in {"getOrgUrl", "org_select"} /\ flow'[f] # flow[f]) =>
       /\ localStorage' = localStorage
       /\ hist'[f].writes = <<>>

C9_AddNewPersists == [][\A f \in Flows : C9_Step(f)]_vars

C9_Witness ==
  \E f \in Flows :
    /\ flow[f].pc = "getToken"
    /\ hist[f].writes = <<StartUrlsKey>>
    /\ Len(OrgsOf(localStorage[StartUrlsKey])) = 2
    /\ Last(OrgsOf(localStorage[StartUrlsKey])) = flow[f].orgUrl[1]

(* C10: when exactly one listed account (role) satisfies the filter,       *)
(* getAccount (getRole) returns it as {accountId, name} and does not       *)
(* invoke the chooser.                                                     *)
ListMatches(f) ==
  {i \in 1..Len(flow[f].list) :
     createMatcher(flow[f].match[1], flow[f].list[i])}

C10_Returned(f, result) ==
  Cardinality(ListMatches(f)) = 1 =>
    /\ hist[f].prompts = 0
    /\ \A i \in ListMatches(f) :
         /\ result[1].accountId = flow[f].list[i].accountId
         /\ result[1].name = flow[f].list[i].name
    /\ DOMAIN result[1] = {"accountId", "name"}

C10_SingleMatchReturned ==
  \A f \in Flows :
    /\ flow[f].pc \in {"acc_select", "role_select"} =>
         Cardinality(ListMatches(f)) # 1
    /\ flow[f].pc = "getRole" => C10_Returned(f, flow[f].account)
    /\ flow[f].pc = "getRoleCredentials" => C10_Returned(f, flow[f].role)

C10_Witness ==
  \E f \in Flows :
    /\ flow[f].pc = "getRoleCredentials"
    /\ Len(flow[f].list) = 2
    /\ Cardinality(ListMatches(f)) = 1
    /\ hist[f].prompts = 0
    /\ flow[f].role[1] \in {flow[f].list[i] : i \in ListMatches(f)}

(* C11: when no listed account (role) satisfies the filter the chooser of  *)
(* getAccount (getRole) is given the whole list, when several do it is     *)
(* given exactly those, and what the chooser's answer makes the function   *)
(* return is one of the entries the chooser was given.                     *)
Count(seq, x) == Cardinality({i \in 1..Len(seq) : seq[i] = x})

SameEntries(s, t) ==
  /\ Len(s) = Len(t)
  /\ \A i \in 1..Len(s) : Count(s, s[i]) = Count(t, s[i])

Kept(f) ==
  LET keep(a) == createMatcher(flow[f].match[1], a)
  IN SelectSeq(flow[f].list, keep)

C11_State(f) ==
  flow[f].pc \in {"acc_select", "role_select"} =>
    /\ hist[f].prompts = 1
    /\ ListMatches(f) = {} => SameEntries(flow[f].matched, flow[f].list)
    /\ Cardinality(ListMatches(f)) > 1 =>
         SameEntries(flow[f].matched, Kept(f))

C11_Step(f) ==
  /\ (flow[f].pc = "acc_select" /\ flow'[f].pc = "getRole") =>
       /\ Count(flow[f].matched, flow'[f].account[1]) > 0
       /\ flow'[f].matched = flow[f].matched
  /\ (flow[f].pc = "role_select" /\ flow'[f].pc = "getRoleCredentials") =>
       /\ Count(flow[f].matched, flow'[f].role[1]) > 0
       /\ flow'[f].matched = flow[f].matched

C11_ChooserCandidates ==
  /\ [](\A f \in Flows : C11_State(f))
  /\ [][\A f \in Flows : C11_Step(f)]_vars

C11_Witness ==
  \E f \in Flows :
    /\ flow[f].pc = "getRoleCredentials"
    /\ hist[f].prompts = 1
    /\ ListMatches(f) = {}
    /\ Len(flow[f].list) = 2
    /\ flow[f].role[1] = flow[f].list[2]

(* C12: getAccount and getRole call the listing again with the nextToken   *)
(* of the last response for as long as a response carries one, stop at the *)
(* first response that carries none, and only then filter, over the items  *)
(* of all the pages received.                                              *)
ListingPcs == {"listAccounts", "listAccountRoles"}

C12_State(f) ==
  LET h == hist[f]
  IN /\ Len(h.sent) = h.listCalls
     /\ \A k \in 1..Len(h.sent) :
          h.sent[k] = IF k = 1 THEN <<>> ELSE <<k - 1>>
     /\ flow[f].pc \in ListingPcs =>
          /\ flow[f].matched = <<>>
          /\ flow[f].nextToken =
               IF h.listCalls = 0 THEN <<>> ELSE <<h.listCalls>>

C12_Step(f) ==
  (/\ flow[f].pc \in ListingPcs
   /\ flow'[f] # flow[f]
   /\ flow'[f].pc # "failed") =>
     /\ hist'[f].sent = Append(hist[f].sent, flow[f].nextToken)
     /\ Len(flow'[f].list) \in {Len(flow[f].list), Len(flow[f].list) + 1}
     /\ SubSeq(flow'[f].list, 1, Len(flow[f].list)) = flow[f].list
     /\ (flow'[f].pc = flow[f].pc) = (flow'[f].nextToken # <<>>)
     /\ flow'[f].pc # flow[f].pc =>
          LET keep(a) == createMatcher(flow[f].match[1], a)
              kept    == SelectSeq(flow'[f].list, keep)
          IN IF kept = <<>>
               THEN SameEntries(flow'[f].matched, flow'[f].list)
               ELSE SameEntries(flow'[f].matched, kept)

C12_AllPagesBeforeFilter ==
  /\ [](\A f \in Flows : C12_State(f))
  /\ [][\A f \in Flows : C12_Step(f)]_vars

C12_Witness ==
  \E f \in Flows :
    /\ flow[f].pc = "acc_select"
    /\ hist[f].listCalls = 2
    /\ hist[f].sent = << <<>>, <<1>> >>
    /\ Len(flow[f].list) = 2
    /\ flow[f].list[1] # flow[f].list[2]
    /\ Len(flow[f].matched) = 2

(* C13: an entry of the cache that is not parseable JSON never makes an    *)
(* operation fail: getOrgUrl goes on as with an empty list of              *)
(* organizations and getToken goes on to register a client, as if the      *)
(* entry were absent.                                                      *)
C13_Step(f) ==
  /\ (/\ flow[f].pc = "getOrgUrl"
      /\ localStorage[StartUrlsKey] = Corrupt
      /\ flow'[f] # flow[f]) =>
       /\ flow'[f].pc # "failed"
       /\ flow'[f].startUrls = <<Sentinel>>
  /\ (/\ flow[f].pc = "getToken"
      /\ localStorage[TokenKeyOf(f)] = Corrupt
      /\ flow'[f] # flow[f]) =>
       /\ flow'[f].pc = "registerClient"
       /\ hist'[f].regCalls = 0

C13_CorruptCacheTolerated == [][\A f \in Flows : C13_Step(f)]_vars

(* C14: getRoleCredentials calls the remote getRoleCredentials once, with  *)
(* the accessToken of the token and the accountId and name of the role,    *)
(* writes nothing to the cache and does not call again; a failure of the   *)
(* call is the failure of the function, and on success the result holds    *)
(* the accessKeyId, secretAccessKey and sessionToken of the response and   *)
(* the Date of its expiration as expireTime.                               *)
C14_Step(f) ==
  (flow[f].pc = "getRoleCredentials" /\ flow'[f] # flow[f]) =>
    /\ hist'[f].credCalls = 1
    /\ localStorage' = localStorage
    /\ hist'[f].writes = <<>>
    /\ flow'[f].pc \in {"done", "failed"}
    /\ flow'[f].pc = "failed" =>
         /\ flow'[f].error = <<"e", "getRoleCredentials">>
         /\ flow'[f].credentials = <<>>
    /\ flow'[f].pc = "done" =>
         LET rc   == hist'[f].response[1]
             cred == flow'[f].credentials[1]
         IN /\ rc.accessKeyId = <<"AK", flow[f].token[1].accessToken,
                                  flow[f].role[1].accountId,
                                  flow[f].role[1].name>>
            /\ DOMAIN cred = {"accessKeyId", "secretAccessKey",
                              "sessionToken", "expireTime"}
            /\ cred.accessKeyId = rc.accessKeyId
            /\ cred.secretAccessKey = rc.secretAccessKey
            /\ cred.sessionToken = rc.sessionToken
            /\ cred.expireTime.time = rc.expiration

C14_After(f) ==
  (hist[f].credCalls > 0 /\ flow'[f] # flow[f]) => flow'[f].pc = "idle"

C14_CredentialsOnce ==
  /\ [](\A f \in Flows : hist[f].credCalls <= 1)
  /\ [][\A f \in Flows : C14_Step(f) /\ C14_After(f)]_vars

C14_Witness ==
  \E f \in Flows :
    /\ flow[f].pc = "done"
    /\ hist[f].credCalls = 1
    /\ hist[f].response[1].expiration = 2000
    /\ flow[f].credentials[1].expireTime.time = 2000
    /\ flow[f].role[1].accountId = "2"

(* C15: a match parameter that is a string selects every entry whose name  *)
(* contains the string, in getOrgUrl, getAccount and getRole alike.        *)
NameContains(list, str) ==
  LET has(a) == Contains(a.name, str) IN SelectSeq(list, has)

C15_PartialStringMatch ==
  \A f \in Flows :
    /\ (/\ flow[f].pc \in {"org_select", "getToken"}
        /\ flow[f].matchOrg # <<>>
        /\ flow[f].matchOrg[1].kind = "str") =>
         flow[f].matchedStartUrls =
           NameContains(flow[f].startUrls, flow[f].matchOrg[1].arg)
    /\ (/\ flow[f].pc \in {"acc_select", "getRole", "role_select",
                           "getRoleCredentials"}
        /\ flow[f].match # <<>>
        /\ flow[f].match[1].kind = "str"
        /\ NameContains(flow[f].list, flow[f].match[1].arg) # <<>>) =>
         SameEntries(flow[f].matched,
                     NameContains(flow[f].list, flow[f].match[1].arg))

(* C16: the list of organizations that getOrgUrl stores is the list a      *)
(* later getOrgUrl loads, entry for entry, with nothing lost, repeated or  *)
(* changed; so each 'add new' keeps every organization added before it.    *)
Persisted == issued[StartUrlsKey]

C16_State(f) ==
  Persisted # <<>> =>
    /\ LoadStartUrls(localStorage[StartUrlsKey]) = Persisted[1]
    /\ flow[f].pc \in {"org_select", "org_new", "getToken"} =>
         flow[f].startUrls = Persisted[1]

C16_Step(f) ==
  (flow[f].pc = "org_new" /\ flow'[f].pc = "getToken") =>
    LET before == IF Persisted = <<>> THEN <<Sentinel>> ELSE Persisted[1]
        after  == issued'[StartUrlsKey][1]
    IN /\ after = Append(before, flow'[f].orgUrl[1])
       /\ LoadStartUrls(localStorage'[StartUrlsKey]) = after

C16_OrgListRoundTrip ==
  /\ [](\A f \in Flows : C16_State(f))
  /\ [][\A f \in Flows : C16_Step(f)]_vars

C16_Witness ==
  \E f \in Flows :
    /\ flow[f].pc = "getToken"
    /\ hist[f].writes = <<StartUrlsKey>>
    /\ Persisted # <<>>
    /\ Len(Persisted[1]) = 3
    /\ LoadStartUrls(localStorage[StartUrlsKey]) = Persisted[1]
    /\ Persisted[1][1] = Sentinel
    /\ Persisted[1][2].name # Persisted[1][3].name

(* C17: the cache is read and written without any lock and the last write  *)
(* wins: a getOrgUrl that adds an organization stores the list it read     *)
(* earlier followed by its own entry, whatever another process has stored  *)
(* since; so with two processes each adding an organization the stored     *)
(* list can hold the later writer's organization only.                     *)
C17_Step(f) ==
  (flow[f].pc = "org_new" /\ flow'[f].pc = "getToken") =>
    /\ localStorage'[StartUrlsKey].kind = "json"
    /\ ParseOrgs(localStorage'[StartUrlsKey]) =
         Append(flow[f].startUrls, flow'[f].orgUrl[1])

C17_LastWriteWins == [][\A f \in Flows : C17_Step(f)]_vars

C17_Witness ==
  /\ flow["f1"].pc = "getToken"
  /\ flow["f2"].pc = "getToken"
  /\ hist["f1"].writes = <<StartUrlsKey>>
  /\ hist["f2"].writes = <<StartUrlsKey>>
  /\ flow["f1"].orgUrl # flow["f2"].orgUrl
  /\ OrgsOf(localStorage[StartUrlsKey]) = flow["f2"].orgUrl
  /\ flow["f1"].orgUrl[1] \notin StoredOrgs

(* C18: in the polling loop a failed createToken attempt, whatever its     *)
(* error, uses up one attempt and nothing more: getToken ends by returning *)
(* the token of the first attempt that succeeds or, after the 120th failed *)
(* attempt, by the timeout error, and in no other way.                     *)
C18_Step(f) ==
  (flow[f].pc = "createToken" /\ flow'[f] # flow[f]) =>
    /\ hist'[f].createCalls = hist[f].createCalls + 1
    /\ flow'[f].pc \in {"delay", "getAccount", "failed"}
    /\ flow'[f].pc = "delay" =>
         /\ hist'[f].caught # <<>>
         /\ hist'[f].createCalls < 120
         /\ flow'[f].maxIterations = flow[f].maxIterations - 1
    /\ flow'[f].pc = "getAccount" =>
         /\ hist'[f].caught = hist[f].caught
         /\ flow'[f].token # <<>>
         /\ flow'[f].token[1] \in TokenResponses(flow[f].orgUrl[1].startUrl)
    /\ flow'[f].pc = "failed" =>
         /\ hist'[f].caught # <<>>
         /\ hist'[f].createCalls = 120
         /\ flow'[f].error = <<"Error creating token: Timeout">>

C18_State(f) ==
  /\ flow[f].pc \in {"delay", "createToken"} =>
       flow[f].maxIterations + hist[f].createCalls = 120
  /\ (flow[f].pc = "failed" /\ hist[f].createCalls > 0) =>
       hist[f].createCalls = 120

C18_FailuresOnlyUseAttempts ==
  /\ [](\A f \in Flows : C18_State(f))
  /\ [][\A f \in Flows : C18_Step(f)]_vars

C18_Witness ==
  \E f \in Flows :
    /\ flow[f].pc = "getAccount"
    /\ hist[f].caught = <<"other">>
    /\ hist[f].createCalls = 120
    /\ flow[f].token # <<>>

(* C19: whatever the collaborator answers, one getToken call makes at most *)
(* 120 createToken calls, and each of them, the first included, comes      *)
(* after a delay of 1000 ms of its own: the delays are as many as the      *)
(* createToken calls.                                                      *)
C19_State(f) ==
  LET h == hist[f]
  IN /\ h.createCalls <= 120
     /\ flow[f].pc = "createToken" =>
          /\ h.createCalls < 120
          /\ h.delays = (h.createCalls + 1) * 1000
     /\ flow[f].pc # "createToken" => h.delays = h.createCalls * 1000

C19_Step(f) ==
  hist'[f].createCalls > hist[f].createCalls =>
    /\ hist'[f].createCalls = hist[f].createCalls + 1
    /\ hist'[f].delays = hist'[f].createCalls * 1000
    /\ hist'[f].delays = hist[f].delays

C19_DelayBeforeEachAttempt ==
  /\ [](\A f \in Flows : C19_State(f))
  /\ [][\A f \in Flows : C19_Step(f)]_vars

C19_Witness ==
  \E f \in Flows :
    /\ flow[f].pc = "getAccount"
    /\ hist[f].createCalls = 120
    /\ hist[f].delays = 120 * 1000
    /\ ~hist[f].fromCache

(* C20: once getToken has returned a token obtained by polling for an      *)
(* organization, a later getToken for the same organization name returns   *)
(* that same token without any remote call while the current time is       *)
(* before the token's expireTime, and registers a client again once the    *)
(* current time has reached it.                                            *)
C20_Step(f) ==
  (/\ flow[f].pc = "getToken"
   /\ flow'[f] # flow[f]
   /\ issued[TokenKeyOf(f)] # <<>>) =>
     LET key    == TokenKeyOf(f)
         polled == issued[key][1]
         stored == localStorage[key]
     IN /\ stored.kind = "json"
        /\ polled.expiresIn > 0
        /\ IF now < NewDate(ParseToken(stored).expireTime)
             THEN /\ flow'[f].pc = "getAccount"
                  /\ flow'[f].token = <<polled>>
                  /\ hist'[f].regCalls = 0
                  /\ hist'[f].devCalls = 0
                  /\ hist'[f].createCalls = 0
                  /\ localStorage' = localStorage
             ELSE /\ flow'[f].pc = "registerClient"
                  /\ flow'[f].token = <<>>

C20_Issued(f) ==
  (flow[f].pc = "createToken" /\ flow'[f].pc = "getAccount") =>
    LET key == flow[f].cacheKey
    IN /\ issued'[key] = flow'[f].token
       /\ NewDate(ParseToken(localStorage'[key]).expireTime) =
            now + flow'[f].token[1].expiresIn * 1000

C20_CachedUntilExpiry ==
  [][\A f \in Flows : C20_Step(f) /\ C20_Issued(f)]_vars

C20_Witness ==
  \E f \in Flows :
    /\ flow[f].pc = "getAccount"
    /\ hist[f].fromCache
    /\ calls = 2
    /\ flow[f].token # <<>>
    /\ flow[f].token = issued[flow[f].cacheKey]
    /\ now < NewDate(ParseToken(localStorage[flow[f].cacheKey]).expireTime)

(* C21: getToken changes the cache only where a createToken call has       *)
(* succeeded, and then only the entry 'sso-<orgName>' of its own           *)
(* organization: a failed registration, a failed device authorization and  *)
(* a polling timeout leave every entry, an expired token included, as it   *)
(* was, and 'startUrls' and the entries of other names are never written.  *)
TokenStagePcs ==
  {"getToken", "registerClient", "startDeviceAuthorization", "window.open",
   "delay", "createToken"}

C21_Step(f) ==
  (flow[f].pc \in TokenStagePcs /\ flow'[f] # flow[f]) =>
    IF flow[f].pc = "createToken" /\ flow'[f].pc = "getAccount"
      THEN /\ flow[f].cacheKey = SsoPrefix \o flow[f].orgUrl[1].name
           /\ flow[f].cacheKey # StartUrlsKey
           /\ \A k \in Keys \ {flow[f].cacheKey} :
                localStorage'[k] = localStorage[k]
           /\ hist'[f].writes = <<flow[f].cacheKey>>
      ELSE /\ localStorage' = localStorage
           /\ hist'[f].writes = <<>>

C21_State(f) ==
  (\/ flow[f].pc \in TokenStagePcs \ {"getToken"}
   \/ flow[f].pc = "failed" /\ Len(hist[f].stages) = 2) =>
     hist[f].writes = <<>>

C21_CacheUntouchedOnFailure ==
  /\ [](\A f \in Flows : C21_State(f))
  /\ [][\A f \in Flows : C21_Step(f)]_vars

C21_Witness ==
  \E f \in Flows :
    /\ flow[f].pc = "createToken"
    /\ flow[f].maxIterations = 1
    /\ hist[f].writes = <<>>
    /\ localStorage[flow[f].cacheKey].kind = "json"
    /\ NewDate(ParseToken(localStorage[flow[f].cacheKey]).expireTime) <= now
    /\ <<ParseToken(localStorage[flow[f].cacheKey]).token>> =
         issued[flow[f].cacheKey]

(* C22: whenever a createToken call of getToken answers with a token,      *)
(* getToken returns that token and calls createToken no more, also when    *)
(* the write of the token to the cache throws.                             *)
C22_Step(f) ==
  (/\ flow[f].pc = "createToken"
   /\ ~hist[f].redeemed
   /\ hist'[f].redeemed) =>
     /\ flow'[f].pc = "getAccount"
     /\ flow'[f].token # <<>>
     /\ flow'[f].token[1] \in TokenResponses(flow[f].orgUrl[1].startUrl)

C22_State(f) ==
  hist[f].redeemed => flow[f].pc \notin {"delay", "createToken", "failed"}

C22_TokenNeverDiscarded ==
  /\ [](\A f \in Flows : C22_State(f))
  /\ [][\A f \in Flows : C22_Step(f)]_vars

(* C23: with two authenticate calls in progress in one process for         *)
(* organizations of different regions, every listAccounts,                 *)
(* listAccountRoles and getRoleCredentials call of a call goes through an  *)
(* SSO client of the region of that call's own organization.               *)
C23_OwnRegionClient ==
  \A f \in Flows :
    (hist[f].client # None /\ flow[f].orgUrl # <<>>) =>
      hist[f].client = flow[f].orgUrl[1].region

(* C24: the token getToken returns for an organization, from the cache or  *)
(* from polling, was issued by a device authorization started with the     *)
(* startUrl of that organization: a token obtained for one start URL is    *)
(* never returned for an entry with another start URL.                     *)
IssuedFor(token) == token.accessToken[2]

C24_TokenOfOwnStartUrl ==
  \A f \in Flows :
    (flow[f].token # <<>> /\ flow[f].orgUrl # <<>>) =>
      IssuedFor(flow[f].token[1]) = flow[f].orgUrl[1].startUrl

====
